---- MODULE Spec2Model ----
(***************************************************************************)
(* A model of alt-config (src/alt-config.h): the escaping utilities, the   *)
(* scanner (Parser::Tokenize), the recursive-descent parser, the emitter   *)
(* and the Node value model.                                               *)
(*                                                                         *)
(* A std::string is a sequence of one-character strings.  Each part of the *)
(* library has its own specification over the shared variables:            *)
(*   SpecEscape  detail::Escape / detail::Unescape                         *)
(*   SpecScan    Parser::Tokenize, one step per loop iteration             *)
(*   SpecParse   Parser::Parse, Emitter::Emit and the re-parse             *)
(*   SpecNode    Node: construction, indexing, assignment, copy            *)
(*   SpecConvert Node: strict and defaulted conversions                    *)
(***************************************************************************)
EXTENDS Integers, Sequences, FiniteSets, TLC

VARIABLES
    esc,      \* SpecEscape: [pc, s, raw, res]
    buffer,   \* Parser::buffer
    scan,     \* Parser's scanner state: readPos, line, column, tokens, ...
    pipe,     \* SpecParse: the caller's position and the values it holds
    heap,     \* SpecNode: the Node objects, by address
    ref,      \* SpecNode: the Node& the caller got from its last operator[]
    last      \* SpecNode, SpecConvert: the caller's last operation, its outcome

textVars == <<esc, buffer, scan, pipe>>
nodeVars == <<heap, ref, last>>
vars == <<esc, buffer, scan, pipe, heap, ref, last>>

\* The value of a variable in the specifications that do not use it.
EscIdle == [pc |-> "idle"]
ScanIdle == [pc |-> "idle"]
PipeIdle == [pc |-> "idle"]
LastIdle == [op |-> "idle"]
NodeIdle == heap = << >> /\ ref = 0 /\ last = LastIdle

----------------------------------------------------------------------------
(* Characters *)

NL == "\n"
CR == "\r"
TAB == "\t"
FF == "\f"
SP == " "
BS == "\\"
SQ == "'"
DQ == "\""

\* The characters of the model in the order of their codes (std::string
\* compares by character code).
CharOrder ==
    << TAB, NL, FF, CR, SP, DQ, "#", SQ, ",", "7", ":", "[", BS, "]",
       "a", "b", "e", "j", "k", "n", "r", "t", "u", "x", "z", "{", "}" >>

Ord(c) == CHOOSE i \in 1..Len(CharOrder) : CharOrder[i] = c

\* std::isspace in the "C" locale, over the characters of the model.
IsSpace(c) == c \in {SP, TAB, NL, FF, CR}

SeqsUpTo(S, n) == UNION { [1..k -> S] : k \in 0..n }

Least(S) == CHOOSE i \in S : \A j \in S : i <= j
Greatest(S) == CHOOSE i \in S : \A j \in S : j <= i

----------------------------------------------------------------------------
(* detail::Unescape and detail::Escape *)

\* The switch of Unescape on the character after a backslash.
UnescapePair(res, c) ==
    CASE c = "n" \/ c = NL       -> Append(res, NL)
      [] c = "r"                 -> Append(res, CR)
      [] c \in {SQ, DQ, BS}      -> Append(res, c)
      [] OTHER                   -> res \o <<BS, c>>

\* The while loop of Unescape; i is the position of `it` (1-based).
RECURSIVE UnescapeLoop(_, _, _)
UnescapeLoop(str, i, res) ==
    IF i > Len(str) THEN res
    ELSE IF str[i] = BS /\ i + 1 <= Len(str)
         THEN UnescapeLoop(str, i + 2, UnescapePair(res, str[i + 1]))
         ELSE UnescapeLoop(str, i + 1, Append(res, str[i]))

\* res.erase(find_if(rbegin, rend, not space).base(), end)
RECURSIVE TrimTrailingSpaces(_)
TrimTrailingSpaces(res) ==
    IF Len(res) > 0 /\ IsSpace(res[Len(res)])
    THEN TrimTrailingSpaces(SubSeq(res, 1, Len(res) - 1))
    ELSE res

Unescape(str) == TrimTrailingSpaces(UnescapeLoop(str, 1, << >>))

\* An Escape that leaves a backslash as it is.
EscapeCharNoBackslash(c) ==
    CASE c = NL                  -> <<BS, "n">>
      [] c = CR                  -> <<BS, "r">>
      [] c \in {SQ, DQ}          -> <<BS, c>>
      [] OTHER                   -> <<c>>

\* The switch of Escape on one character.
EscapeChar(c) ==
    CASE c = NL                  -> <<BS, "n">>
      [] c = CR                  -> <<BS, "r">>
      [] c \in {SQ, DQ, BS}      -> <<BS, c>>
      [] OTHER                   -> <<c>>

RECURSIVE EscapeLoop(_, _, _)
EscapeLoop(str, i, res) ==
    IF i > Len(str) THEN res
    ELSE EscapeLoop(str, i + 1, res \o EscapeChar(str[i]))

Escape(str) == EscapeLoop(str, 1, << >>)

----------------------------------------------------------------------------
(* Parser: the scanner (Unread, Peek, Get, Skip, SkipToNextToken, Tokenize) *)
(*                                                                          *)
(* A scanner state s is a record                                            *)
(*   pc       the place in Tokenize the next step runs                      *)
(*   readPos, line, column   Parser's fields                                *)
(*   tokens   Parser::tokens                                                *)
(*   val, start   the locals of the scalar branch of Tokenize               *)
(*   oobRead  whether a Peek has read buffer.data() at an offset >= size    *)
(*   err      the message of the Error thrown, if any                       *)
(* A read past the end of the buffer is undefined; it yields the byte oobc, *)
(* which the caller of a step chooses.  Once readPos has passed             *)
(* buffer.size() the scanner walks memory it does not own and the model     *)
(* follows it no further (pc = "overrun").                                  *)

\* The stand-ins for the three bytes of the UTF-8 byte-order mark.
BOM == <<"EF", "BB", "BF">>

\* Parser::FixEncoding
FixEncoding(buf) ==
    IF Len(buf) < 3 THEN buf
    ELSE IF SubSeq(buf, 1, 3) = BOM THEN SubSeq(buf, 4, Len(buf)) ELSE buf

Token(type, value, s) ==
    [type |-> type, value |-> value, pos |-> s.readPos, line |-> s.line,
     col |-> s.column]

\* Parser's member initialisers and the first push_back of Tokenize.
ScanStart ==
    [pc |-> "top", readPos |-> 0, line |-> 1, column |-> 0,
     tokens |-> << [type |-> "DICT_START", value |-> << >>, pos |-> 0,
                    line |-> 0, col |-> 0] >>,
     val |-> << >>, start |-> "", oobRead |-> FALSE, err |-> ""]

\* Parser::Unread.  In every state the model follows readPos <= size, so the
\* unsigned difference does not wrap.
Unread(buf, s) == Len(buf) - s.readPos

InBuf(buf, s, offset) == s.readPos + offset < Len(buf)

\* Parser::Peek
Peek(buf, s, offset, oobc) ==
    IF InBuf(buf, s, offset) THEN buf[s.readPos + offset + 1] ELSE oobc

\* The effect Get() and Skip(1) share: one Peek() for the line count, then
\* the cursor moves by one.
Advance(buf, s, oobc) ==
    LET c == Peek(buf, s, 0, oobc) IN
    [s EXCEPT !.readPos = s.readPos + 1,
              !.line = IF c = NL THEN s.line + 1 ELSE s.line,
              !.column = IF c = NL THEN 0 ELSE s.column + 1,
              !.oobRead = s.oobRead \/ ~InBuf(buf, s, 0)]

\* Parser::Skip with n = 1, the only way it is called.
Skip(buf, s, oobc) == Advance(buf, s, oobc)

\* Parser::Get: the state after it; the character it returns is the one
\* Peek() sees before it.
Get(buf, s, oobc) == Advance(buf, s, oobc)

\* val += Get()
GetInto(buf, s, oobc) ==
    [Get(buf, s, oobc) EXCEPT !.val = Append(s.val, Peek(buf, s, 0, oobc))]

\* The push_back of DICT_END that ends Tokenize.
FinishTokenize(s) ==
    [s EXCEPT !.pc = "done",
              !.tokens = Append(s.tokens, Token("DICT_END", << >>, s))]

\* while (Unread() > 0) of Tokenize.
StepTop(buf, s, oobc) ==
    IF Unread(buf, s) > 0 THEN [s EXCEPT !.pc = "skip"] ELSE FinishTokenize(s)

\* One iteration of the outer loop of SkipToNextToken.
StepSkip(buf, s, oobc) ==
    IF Unread(buf, s) > 0
    THEN LET c == Peek(buf, s, 0, oobc) IN
         IF c \in {SP, NL, CR, TAB, ","} THEN Skip(buf, s, oobc)
         ELSE IF c = "#" THEN [Skip(buf, s, oobc) EXCEPT !.pc = "cmt1"]
         ELSE [s EXCEPT !.pc = "tok"]
    ELSE [s EXCEPT !.pc = "tok"]

\* while (Unread() > 0 && Peek() != '\n' && Peek() != '#' && Peek() != '"')
StepCmt1(buf, s, oobc) ==
    IF Unread(buf, s) > 0 /\ Peek(buf, s, 0, oobc) \notin {NL, "#", DQ}
    THEN Skip(buf, s, oobc)
    ELSE [s EXCEPT !.pc = "cmtq"]

\* if (Peek() == '"') Skip();  -- the Peek is not guarded by Unread().
StepCmtQ(buf, s, oobc) ==
    LET read == [s EXCEPT !.oobRead = s.oobRead \/ ~InBuf(buf, s, 0)] IN
    IF Peek(buf, s, 0, oobc) = DQ
    THEN [Skip(buf, read, oobc) EXCEPT !.pc = "cmt2"]
    ELSE [read EXCEPT !.pc = "cmtend"]

\* while (Unread() > 0 && Peek() != '\n' && Peek() != '"')
StepCmt2(buf, s, oobc) ==
    IF Unread(buf, s) > 0 /\ Peek(buf, s, 0, oobc) \notin {NL, DQ}
    THEN Skip(buf, s, oobc)
    ELSE [s EXCEPT !.pc = "cmtend"]

\* if (Unread() > 0) Skip();  and back to the outer loop.
StepCmtEnd(buf, s, oobc) ==
    IF Unread(buf, s) > 0
    THEN [Skip(buf, s, oobc) EXCEPT !.pc = "skip"]
    ELSE [s EXCEPT !.pc = "skip"]

PushStructural(buf, s, oobc, type) ==
    LET s1 == Skip(buf, s, oobc) IN
    [s1 EXCEPT !.pc = "top", !.tokens = Append(s.tokens, Token(type, << >>, s1))]

\* The body of Tokenize's loop after SkipToNextToken: the break at the end
\* of the input, the four structural characters, or the start of a scalar.
StepTok(buf, s, oobc) ==
    IF Unread(buf, s) = 0 THEN FinishTokenize(s)
    ELSE LET c == Peek(buf, s, 0, oobc) IN
         CASE c = "[" -> PushStructural(buf, s, oobc, "ARRAY_START")
           [] c = "]" -> PushStructural(buf, s, oobc, "ARRAY_END")
           [] c = "{" -> PushStructural(buf, s, oobc, "DICT_START")
           [] c = "}" -> PushStructural(buf, s, oobc, "DICT_END")
           [] c \in {SQ, DQ} ->
                [Get(buf, s, oobc) EXCEPT !.pc = "q0", !.start = c,
                                          !.val = << >>]
           [] OTHER -> [s EXCEPT !.pc = "unq", !.val = << >>]

\* if (Peek() != start)  -- the Peek is not guarded by Unread().
StepQ0(buf, s, oobc) ==
    LET read == [s EXCEPT !.oobRead = s.oobRead \/ ~InBuf(buf, s, 0)] IN
    IF Peek(buf, s, 0, oobc) # s.start
    THEN [read EXCEPT !.pc = "qloop"]
    ELSE [read EXCEPT !.pc = "qclose"]

\* One iteration of
\*   while (Unread() > 1 && (Peek() == '\\' || Peek(1) != start))
StepQLoop(buf, s, oobc) ==
    IF Unread(buf, s) > 1
       /\ (Peek(buf, s, 0, oobc) = BS \/ Peek(buf, s, 1, oobc) # s.start)
    THEN LET c == Peek(buf, s, 0, oobc) IN
         IF c \in {NL, CR}
         THEN LET s1 == Get(buf, s, oobc)
                  s2 == IF c = CR /\ Peek(buf, s1, 0, oobc) = NL
                        THEN Skip(buf, s1, oobc) ELSE s1
              IN [s2 EXCEPT !.val = Append(s.val, NL)]
         ELSE GetInto(buf, s, oobc)
    ELSE [s EXCEPT !.pc = "qlast"]

\* if (Unread() > 0) val += Get();  if (Unread() == 0) throw Error(...)
StepQLast(buf, s, oobc) ==
    LET s1 == IF Unread(buf, s) > 0 THEN GetInto(buf, s, oobc) ELSE s IN
    IF Unread(buf, s1) = 0
    THEN [s1 EXCEPT !.pc = "error", !.err = "Unexpected end of file"]
    ELSE [s1 EXCEPT !.pc = "qclose"]

\* The Skip() that consumes the closing quote.
StepQClose(buf, s, oobc) == [Skip(buf, s, oobc) EXCEPT !.pc = "fin"]

\* One iteration of the unquoted scan.
StepUnq(buf, s, oobc) ==
    IF Unread(buf, s) > 0
       /\ Peek(buf, s, 0, oobc) \notin {NL, ":", ",", "]", "}", "#"}
    THEN GetInto(buf, s, oobc)
    ELSE [s EXCEPT !.pc = "fin"]

\* val = Unescape(val), the KEY or SCALAR token, and the separator.
StepFin(buf, s, oobc) ==
    LET isKey == Unread(buf, s) > 0 /\ Peek(buf, s, 0, oobc) = ":"
        tok == Token(IF isKey THEN "KEY" ELSE "SCALAR", Unescape(s.val), s)
        s1 == IF Unread(buf, s) > 0 /\ Peek(buf, s, 0, oobc) \in {":", ","}
              THEN Skip(buf, s, oobc) ELSE s
    IN [s1 EXCEPT !.pc = "top", !.tokens = Append(s.tokens, tok),
                  !.val = << >>]

ScanEnded(s) == s.pc \in {"done", "error", "overrun"}

\* One step of Tokenize from s.
ScanStep(buf, s, oobc) ==
    LET t == CASE s.pc = "top"    -> StepTop(buf, s, oobc)
               [] s.pc = "skip"   -> StepSkip(buf, s, oobc)
               [] s.pc = "cmt1"   -> StepCmt1(buf, s, oobc)
               [] s.pc = "cmtq"   -> StepCmtQ(buf, s, oobc)
               [] s.pc = "cmt2"   -> StepCmt2(buf, s, oobc)
               [] s.pc = "cmtend" -> StepCmtEnd(buf, s, oobc)
               [] s.pc = "tok"    -> StepTok(buf, s, oobc)
               [] s.pc = "q0"     -> StepQ0(buf, s, oobc)
               [] s.pc = "qloop"  -> StepQLoop(buf, s, oobc)
               [] s.pc = "qlast"  -> StepQLast(buf, s, oobc)
               [] s.pc = "qclose" -> StepQClose(buf, s, oobc)
               [] s.pc = "unq"    -> StepUnq(buf, s, oobc)
               [] s.pc = "fin"    -> StepFin(buf, s, oobc)
    IN IF t.readPos > Len(buf) THEN [t EXCEPT !.pc = "overrun"] ELSE t

RECURSIVE RunScan(_, _, _)
RunScan(buf, s, oobc) ==
    IF ScanEnded(s) THEN s ELSE RunScan(buf, ScanStep(buf, s, oobc), oobc)

\* Parser::Tokenize, run to its end.
Tokenize(buf, oobc) == RunScan(buf, ScanStart, oobc)

----------------------------------------------------------------------------
(* SpecScan: Tokenize, step by step, on every short input.                 *)

MaxScanLen == 4
ScanChars == {"a", NL, "#", DQ, SQ, BS, ":", "["}

\* The bytes a read past the end of the buffer may yield.
OobBytes == {"a", NL, DQ, SQ}

InitScan ==
    /\ buffer \in SeqsUpTo(ScanChars, MaxScanLen)
    /\ scan = ScanStart
    /\ esc = EscIdle
    /\ pipe = PipeIdle
    /\ NodeIdle

\* One step of Tokenize; the byte a read past the buffer yields is any one.
ScanMove ==
    /\ \E oobc \in OobBytes : scan' = ScanStep(buffer, scan, oobc)
    /\ UNCHANGED <<esc, buffer, pipe, nodeVars>>

TokenizeLoop ==
    /\ scan.pc = "top"
    /\ ScanMove
SkipToNextToken ==
    /\ scan.pc = "skip"
    /\ ScanMove
CommentBody ==
    /\ scan.pc = "cmt1"
    /\ ScanMove
CommentQuote ==
    /\ scan.pc = "cmtq"
    /\ ScanMove
CommentQuoted ==
    /\ scan.pc = "cmt2"
    /\ ScanMove
CommentEnd ==
    /\ scan.pc = "cmtend"
    /\ ScanMove
TokenStart ==
    /\ scan.pc = "tok"
    /\ ScanMove
QuotedOpen ==
    /\ scan.pc = "q0"
    /\ ScanMove
QuotedLoop ==
    /\ scan.pc = "qloop"
    /\ ScanMove
QuotedLast ==
    /\ scan.pc = "qlast"
    /\ ScanMove
QuotedClose ==
    /\ scan.pc = "qclose"
    /\ ScanMove
UnquotedLoop ==
    /\ scan.pc = "unq"
    /\ ScanMove
TokenFinish ==
    /\ scan.pc = "fin"
    /\ ScanMove

NextScan ==
    \/ TokenizeLoop \/ SkipToNextToken \/ CommentBody \/ CommentQuote
    \/ CommentQuoted \/ CommentEnd \/ TokenStart \/ QuotedOpen \/ QuotedLoop
    \/ QuotedLast \/ QuotedClose \/ UnquotedLoop \/ TokenFinish

SpecScan == InitScan /\ [][NextScan]_vars

\* C10 (as specified): in every state reached during Tokenize the read
\* position is at most the buffer size and no Peek()/Get() has read an
\* offset outside the buffer.
C10_CursorSafe == scan.readPos <= Len(buffer) /\ ~scan.oobRead

----------------------------------------------------------------------------
(* The tree Parser::Parse builds and Emitter::Emit prints.                  *)
(*                                                                          *)
(* A tree is a record [type, val]: val is the text of a SCALAR, the         *)
(* sequence of the children of a LIST, and for a DICT the sequence of its   *)
(* entries [key, node] in the order of std::map, ascending by key.          *)

ScalarNode(text) == [type |-> "SCALAR", val |-> text]
ListNode(list) == [type |-> "LIST", val |-> list]
DictNode(dict) == [type |-> "DICT", val |-> dict]

\* std::string's operator<: lexicographic by character code.
RECURSIVE StrLess(_, _)
StrLess(x, y) ==
    IF y = << >> THEN FALSE
    ELSE IF x = << >> THEN TRUE
    ELSE IF Head(x) = Head(y) THEN StrLess(Tail(x), Tail(y))
    ELSE Ord(Head(x)) < Ord(Head(y))

HasKey(dict, key) == \E i \in 1..Len(dict) : dict[i].key = key

\* A mapping insertion that overwrites the value of a present key.
DictUpsert(dict, key, node) ==
    LET rest == SelectSeq(dict, LAMBDA e : e.key # key)
        n == Cardinality({i \in 1..Len(rest) : StrLess(rest[i].key, key)})
    IN SubSeq(rest, 1, n) \o << [key |-> key, node |-> node] >>
       \o SubSeq(rest, n + 1, Len(rest))

\* std::map::insert: no effect when the key is present, else the entry is
\* placed in key order.
DictInsert(dict, key, node) ==
    IF HasKey(dict, key) THEN dict
    ELSE LET n == Cardinality({i \in 1..Len(dict) : StrLess(dict[i].key, key)})
         IN SubSeq(dict, 1, n) \o << [key |-> key, node |-> node] >>
            \o SubSeq(dict, n + 1, Len(dict))

\* Parser::Parse(std::deque<Token>::iterator&).  The iterator is an index:
\* Len(tokens) + 1 is tokens.end().  The result is [st, node, tok, err]:
\*   st = "ok"     the call returns node and leaves the iterator at tok
\*   st = "error"  the call throws Error(err)
\*   st = "ub"     the call dereferences an iterator at or past end()
\* Incrementing end() moves the deque iterator and nothing more; the model
\* keeps the index it reaches.
RECURSIVE ParseNode(_, _), ParseList(_, _, _), ParseDict(_, _, _)

Thrown(msg, i) == [st |-> "error", node |-> << >>, tok |-> i, err |-> msg]
Returned(node, i) == [st |-> "ok", node |-> node, tok |-> i, err |-> ""]
Undefined(i) == [st |-> "ub", node |-> << >>, tok |-> i, err |-> ""]

ParseNode(tokens, i) ==
    IF i > Len(tokens) THEN Undefined(i)
    ELSE CASE tokens[i].type = "SCALAR" ->
                Returned(ScalarNode(tokens[i].value), i + 1)
           [] tokens[i].type = "ARRAY_START" -> ParseList(tokens, i + 1, << >>)
           [] tokens[i].type = "DICT_START" -> ParseDict(tokens, i + 1, << >>)
           [] OTHER -> Thrown("Unexpected character", i)

\* The ARRAY_START case from its while loop on.
ParseList(tokens, i, list) ==
    IF i = Len(tokens) + 1 THEN Returned(ListNode(list), i + 1)
    ELSE IF i > Len(tokens) + 1 THEN Undefined(i)
    ELSE IF tokens[i].type = "ARRAY_END" THEN Returned(ListNode(list), i + 1)
    ELSE LET r == ParseNode(tokens, i) IN
         IF r.st # "ok" THEN r
         ELSE ParseList(tokens, r.tok, Append(list, r.node))

\* The DICT_START case from its while loop on.
ParseDict(tokens, i, dict) ==
    IF i = Len(tokens) + 1 THEN Returned(DictNode(dict), i + 1)
    ELSE IF i > Len(tokens) + 1 THEN Undefined(i)
    ELSE IF tokens[i].type = "DICT_END" THEN Returned(DictNode(dict), i + 1)
    ELSE IF tokens[i].type # "KEY" THEN Thrown("key expected", i)
    ELSE LET r == ParseNode(tokens, i + 1) IN
         IF r.st # "ok" THEN r
         ELSE ParseDict(tokens, r.tok, DictInsert(dict, tokens[i].value, r.node))

Spaces(n) == [i \in 1..n |-> SP]

\* Emitter::Emit.  It is applied to the trees Parse returns, whose root is a
\* DICT emitted at indent 0, so a LIST is emitted at indent >= 1.
RECURSIVE Emit(_, _, _), EmitList(_, _, _), EmitDict(_, _, _)

Emit(node, indent, isLast) ==
    CASE node.type = "SCALAR" -> <<SQ>> \o Escape(node.val) \o <<SQ, NL>>
      [] node.type = "LIST" ->
            <<"[", NL>> \o EmitList(node.val, 1, indent)
            \o Spaces((indent - 1) * 2)
            \o (IF isLast THEN <<"]", NL>> ELSE <<"]", ",", NL>>)
      [] node.type = "DICT" ->
            (IF indent > 0 THEN <<"{", NL>> ELSE << >>)
            \o EmitDict(node.val, 1, indent)
            \o (IF indent > 0
                THEN Spaces((indent - 1) * 2)
                     \o (IF isLast THEN <<"}", NL>> ELSE <<"}", ",", NL>>)
                ELSE << >>)
      [] OTHER -> << >>

\* The for loop of the list branch, from element i on.
EmitList(list, i, indent) ==
    IF i > Len(list) THEN << >>
    ELSE Spaces(indent * 2) \o Emit(list[i], indent + 1, i = Len(list))
         \o EmitList(list, i + 1, indent)

\* The for loop of the mapping branch, from entry i on.
EmitDict(dict, i, indent) ==
    IF i > Len(dict) THEN << >>
    ELSE (IF dict[i].node.type = "NONE" THEN << >>
          ELSE Spaces(indent * 2) \o dict[i].key \o <<":", SP>>
               \o Emit(dict[i].node, indent + 1, i = Len(dict)))
         \o EmitDict(dict, i + 1, indent)

----------------------------------------------------------------------------
(* Node                                                                     *)
(*                                                                          *)
(* The heap maps an address to a cell [type, val]: a Node with the Value it *)
(* owns (Node::type always names the class of *Node::val).  val is the text *)
(* of a SCALAR, the std::vector<Node*> of a LIST, and for a DICT the        *)
(* entries [key, node] of the std::map<std::string, Node*> in key order.    *)
(* A cell of type FREE is memory not yet handed out, one of type DEAD a     *)
(* Node that has been deleted.                                              *)

MaxNodes == 3

\* nullptr
Null == -1
\* `static Node none` of ValueList::Get
NoneAddr == 0
\* The two Node objects the caller owns (`a`, and `b`, a copy it makes).
RootA == 1
RootB == 2
\* The memory operator new hands out.
HeapAddrs == 3..(MaxNodes + 2)
Addrs == 0..(MaxNodes + 2)

FreeCell == [type |-> "FREE", val |-> << >>]
DeadCell == [type |-> "DEAD", val |-> << >>]
NoneCell == [type |-> "NONE", val |-> << >>]
ScalarCell(text) == [type |-> "SCALAR", val |-> text]
ListCell(list) == [type |-> "LIST", val |-> list]
DictCell(dict) == [type |-> "DICT", val |-> dict]

Live(h, p) == p \in Addrs /\ h[p].type \notin {"FREE", "DEAD"}

\* The Node* a container cell holds, in iteration order.
ChildPtrs(cell) ==
    CASE cell.type = "LIST" -> cell.val
      [] cell.type = "DICT" -> [i \in 1..Len(cell.val) |-> cell.val[i].node]
      [] OTHER -> << >>

\* operator new: the first cell not yet handed out (a deleted cell is not
\* handed out again).
Alloc(h) == Least({p \in HeapAddrs : h[p].type = "FREE"})
FreeCount(h) == Cardinality({p \in HeapAddrs : h[p].type = "FREE"})

\* Node::IsNone, through a Node* that may be null.
IsNone(h, p) == IF p = Null THEN TRUE ELSE h[p].type = "NONE"

\* `delete val` of the Node at p: ~ValueList and ~ValueDict delete every
\* child that is neither null nor of type NONE, and ~Node deletes its val.
RECURSIVE DeleteVal(_, _), DeleteEach(_, _, _)
DeleteVal(h, p) == DeleteEach(h, ChildPtrs(h[p]), 1)
DeleteEach(h, ptrs, i) ==
    IF i > Len(ptrs) THEN h
    ELSE IF IsNone(h, ptrs[i]) THEN DeleteEach(h, ptrs, i + 1)
    ELSE DeleteEach([DeleteVal(h, ptrs[i]) EXCEPT ![ptrs[i]] = DeadCell],
                    ptrs, i + 1)

\* The element ValueList::Copy / ValueDict::Copy adds to the new container
\* for child i of src, stored at the new Node n.
CopiedEntry(src, i, n) ==
    IF src.type = "LIST" THEN n ELSE [key |-> src.val[i].key, node |-> n]

\* Value::Copy of the cell src into the Node at dst (ValueScalar::Copy,
\* ValueList::Copy, ValueDict::Copy, and Value::Copy for NONE): a child that
\* is null or of type NONE is skipped, every other is copied into a new Node.
RECURSIVE CopyInto(_, _, _), CopyEach(_, _, _, _)
CopyInto(h, src, dst) ==
    CASE src.type = "LIST" ->
            CopyEach([h EXCEPT ![dst] = ListCell(<< >>)], src, 1, dst)
      [] src.type = "DICT" ->
            CopyEach([h EXCEPT ![dst] = DictCell(<< >>)], src, 1, dst)
      [] src.type = "SCALAR" -> [h EXCEPT ![dst] = ScalarCell(src.val)]
      [] OTHER -> [h EXCEPT ![dst] = NoneCell]
CopyEach(h, src, i, dst) ==
    IF i > Len(src.val) THEN h
    ELSE LET c == ChildPtrs(src)[i] IN
         IF IsNone(h, c) THEN CopyEach(h, src, i + 1, dst)
         ELSE LET n == Alloc(h)
                  h1 == CopyInto([h EXCEPT ![n] = NoneCell], h[c], n)
              IN CopyEach([h1 EXCEPT ![dst].val = Append(@, CopiedEntry(src, i, n))],
                          src, i + 1, dst)

\* The number of Nodes a copy of the cell src allocates.
RECURSIVE CopyCost(_, _), CopyCostEach(_, _, _)
CopyCost(h, src) == CopyCostEach(h, ChildPtrs(src), 1)
CopyCostEach(h, ptrs, i) ==
    IF i > Len(ptrs) THEN 0
    ELSE (IF IsNone(h, ptrs[i]) THEN 0 ELSE 1 + CopyCost(h, h[ptrs[i]]))
         + CopyCostEach(h, ptrs, i + 1)

\* The addresses of the Node at p and of every Node below it.
RECURSIVE Reach(_, _)
Reach(h, p) ==
    IF p = Null THEN {}
    ELSE {p} \cup UNION { Reach(h, ChildPtrs(h[p])[i]) :
                          i \in 1..Len(ChildPtrs(h[p])) }

\* Node::operator=(const Node& that), that being the cell src:
\* type = that.type; delete val; val = that.val->Copy().
NodeAssign(h, dst, src) == CopyInto(DeleteVal(h, dst), src, dst)

\* Node::Node(const Node& that) constructing the Node at dst.
NodeCopyConstruct(h, dst, src) == CopyInto(h, src, dst)

Ret(v) == [outcome |-> "returned", value |-> v]
Throw(msg) == [outcome |-> "thrown", value |-> msg]

\* ValueList::Get
ValueListGet(h, this, idx) ==
    IF idx >= Len(h[this].val) THEN NoneAddr
    ELSE IF h[this].val[idx + 1] = Null THEN NoneAddr
    ELSE h[this].val[idx + 1]

\* Node::operator[](std::size_t): val->Get(idx), which Value::Get answers
\* with Error "Not a list" for every Value but a ValueList.
NodeIndex(h, this, idx) ==
    IF h[this].type = "LIST" THEN Ret(ValueListGet(h, this, idx))
    ELSE Throw("Not a list")

\* A Get that answers an absent key as ValueList::Get answers an absent
\* position, with the shared none and no new entry.
ValueDictGetNoInsert(h, this, key) ==
    LET dict == h[this].val IN
    IF HasKey(dict, key)
    THEN [heap |-> h,
          ref |-> dict[CHOOSE i \in 1..Len(dict) : dict[i].key = key].node]
    ELSE [heap |-> h, ref |-> NoneAddr]

\* ValueDict::Get: [heap, ref], the heap after it and the Node it returns.
ValueDictGet(h, this, key) ==
    LET dict == h[this].val IN
    IF HasKey(dict, key)
    THEN [heap |-> h,
          ref |-> dict[CHOOSE i \in 1..Len(dict) : dict[i].key = key].node]
    ELSE LET newNode == Alloc(h) IN
         [heap |-> [h EXCEPT ![newNode] = NoneCell,
                             ![this].val = DictInsert(dict, key, newNode)],
          ref |-> newNode]

\* The text std::stod converts: white space, an optional sign and decimal
\* digits (the texts of the model hold no '.', exponent, "inf" or "nan").
\* [ok, idx, value]; ok is FALSE where stod throws std::invalid_argument.
DigitChars == <<"0", "1", "2", "3", "4", "5", "6", "7", "8", "9">>
IsDigit(c) == \E d \in 1..Len(DigitChars) : DigitChars[d] = c
DigitValue(c) == (CHOOSE d \in 1..Len(DigitChars) : DigitChars[d] = c) - 1

RECURSIVE SkipSpaces(_, _), DigitsEnd(_, _), DigitsValue(_, _, _)
SkipSpaces(val, i) ==
    IF i <= Len(val) /\ IsSpace(val[i]) THEN SkipSpaces(val, i + 1) ELSE i
DigitsEnd(val, i) ==
    IF i <= Len(val) /\ IsDigit(val[i]) THEN DigitsEnd(val, i + 1) ELSE i
DigitsValue(val, i, acc) ==
    IF i <= Len(val) /\ IsDigit(val[i])
    THEN DigitsValue(val, i + 1, acc * 10 + DigitValue(val[i]))
    ELSE acc

Stod(val) ==
    LET s == SkipSpaces(val, 1)
        neg == s <= Len(val) /\ val[s] = "-"
        d == IF s <= Len(val) /\ val[s] \in {"-", "+"} THEN s + 1 ELSE s
        e == DigitsEnd(val, d)
    IN [ok |-> e > d, idx |-> e - 1,
        value |-> (IF neg THEN -1 ELSE 1) * DigitsValue(val, d, 0)]

TextTrue == <<"t", "r", "u", "e">>
TextYes == <<"y", "e", "s">>
TextFalse == <<"f", "a", "l", "s", "e">>
TextNo == <<"n", "o">>

\* ValueScalar::ToBool()
ValueScalarToBool(val) ==
    IF val = TextTrue \/ val = TextYes THEN Ret(TRUE)
    ELSE IF val = TextFalse \/ val = TextNo THEN Ret(FALSE)
    ELSE Throw("Not a bool")

\* ValueScalar::ToNumber()
ValueScalarToNumber(val) ==
    LET r == Stod(val) IN
    IF ~r.ok THEN Throw("Not a number")
    ELSE IF r.idx < Len(val) THEN Throw("Not a number")
    ELSE Ret(r.value)

\* ValueScalar::ToString()
ValueScalarToString(val) == Ret(val)

\* The strict conversion conv of a ValueScalar.
ValueScalarConvert(conv, val) ==
    CASE conv = "ToBool" -> ValueScalarToBool(val)
      [] conv = "ToNumber" -> ValueScalarToNumber(val)
      [] conv = "ToString" -> ValueScalarToString(val)

\* Node::ToBool(), ToNumber(), ToString(): val is never null, and every
\* Value but a ValueScalar throws "Invalid cast".
NodeConvert(h, this, conv) ==
    IF h[this].type = "SCALAR" THEN ValueScalarConvert(conv, h[this].val)
    ELSE Throw("Invalid cast")

\* ValueScalar::ToBool(def), ToNumber(def), ToString(def): each calls the
\* strict conversion and does not use def.
ValueScalarConvertDef(conv, val, def) == ValueScalarConvert(conv, val)

\* Node::ToBool(def), ToNumber(def), ToString(def): def through a null
\* `this`; Value's own defaulted conversions return def.
NodeConvertDef(h, this, conv, def) ==
    IF this = Null THEN Ret(def)
    ELSE IF h[this].type = "SCALAR"
    THEN ValueScalarConvertDef(conv, h[this].val, def)
    ELSE Ret(def)

----------------------------------------------------------------------------
(* SpecNode: a caller owns the Node a, builds it up through ToList() and   *)
(* operator[], keeps the reference its last operator[] returned, assigns   *)
(* through the references it holds and copies a into b.                    *)

\* The caller makes at most MaxOps operations.
MaxOps == 4
MaxListLen == 2
MaxIdx == 2

ScalarTexts == { <<"7">>, TextNo }
DictKeys == { <<"a">>, <<"z">> }

\* The Nodes a caller constructs in place: Node(), Node(const Scalar&),
\* Node(const List&) and Node(const Dict&) of empty containers.
Constructed ==
    {NoneCell, ListCell(<< >>), DictCell(<< >>)}
        \cup {ScalarCell(s) : s \in ScalarTexts}

InitNode ==
    /\ \E c \in Constructed :
          heap = [p \in Addrs |->
                    IF p = NoneAddr THEN NoneCell
                    ELSE IF p = RootA THEN c ELSE FreeCell]
    /\ ref = Null
    /\ last = [op |-> "construct", n |-> 0]
    /\ esc = EscIdle
    /\ buffer = << >>
    /\ scan = ScanIdle
    /\ pipe = PipeIdle

\* The Nodes the caller can name: a, b once constructed, and the Node its
\* reference is bound to, unless that Node has been deleted.
Targets == {p \in {RootA, RootB, ref} : Live(heap, p)}

\* target.ToList().push_back(p), p being new Node(...) or nullptr.
PushBack ==
    /\ last.n < MaxOps
    /\ \E t \in Targets :
        /\ heap[t].type = "LIST"
        /\ Len(heap[t].val) < MaxListLen
        /\ \/ /\ FreeCount(heap) > 0
              /\ \E c \in Constructed :
                    LET n == Alloc(heap) IN
                    heap' = [heap EXCEPT ![n] = c, ![t].val = Append(@, n)]
           \/ heap' = [heap EXCEPT ![t].val = Append(@, Null)]
        /\ last' = [op |-> "push_back", target |-> t, n |-> last.n + 1]
        /\ UNCHANGED <<ref, textVars>>

\* ref = &target[idx]
IndexList ==
    /\ last.n < MaxOps
    /\ \E t \in Targets, idx \in 0..MaxIdx :
        LET r == NodeIndex(heap, t, idx) IN
        /\ ref' = IF r.outcome = "returned" THEN r.value ELSE ref
        /\ last' = [op |-> "index", target |-> t, idx |-> idx,
                    outcome |-> r.outcome, n |-> last.n + 1]
        /\ UNCHANGED <<heap, textVars>>

\* ref = &target[key]
IndexDict ==
    /\ last.n < MaxOps
    /\ \E t \in Targets, key \in DictKeys :
        IF heap[t].type = "DICT"
        THEN /\ HasKey(heap[t].val, key) \/ FreeCount(heap) > 0
             /\ LET r == ValueDictGet(heap, t, key) IN
                /\ heap' = r.heap
                /\ ref' = r.ref
             /\ last' = [op |-> "key", target |-> t, key |-> key,
                         outcome |-> "returned", n |-> last.n + 1]
             /\ UNCHANGED textVars
        ELSE /\ last' = [op |-> "key", target |-> t, key |-> key,
                         outcome |-> "thrown", n |-> last.n + 1]
             /\ UNCHANGED <<heap, ref, textVars>>

\* target = Node(...), a temporary
AssignValue ==
    /\ last.n < MaxOps
    /\ \E t \in Targets, c \in Constructed :
        /\ heap' = NodeAssign(heap, t, c)
        /\ last' = [op |-> "assign", target |-> t, src |-> Null,
                    n |-> last.n + 1]
        /\ UNCHANGED <<ref, textVars>>

\* target = source, neither being a part of the other (operator= sets the
\* target's type and deletes its Value before it copies the source's).
AssignNode ==
    /\ last.n < MaxOps
    /\ \E t \in Targets, s \in Targets :
        /\ Reach(heap, s) \cap Reach(heap, t) = {}
        /\ CopyCost(heap, heap[s]) <= FreeCount(heap)
        /\ heap' = NodeAssign(heap, t, heap[s])
        /\ last' = [op |-> "assign", target |-> t, src |-> s,
                    n |-> last.n + 1]
        /\ UNCHANGED <<ref, textVars>>

\* Node b(source)
CopyConstruct ==
    /\ last.n < MaxOps
    /\ \E s \in Targets :
        /\ heap[RootB].type = "FREE"
        /\ CopyCost(heap, heap[s]) <= FreeCount(heap)
        /\ heap' = NodeCopyConstruct(heap, RootB, heap[s])
        /\ last' = [op |-> "copy", target |-> RootB, src |-> s,
                    n |-> last.n + 1]
        /\ UNCHANGED <<ref, textVars>>

NextNode ==
    \/ PushBack \/ IndexList \/ IndexDict \/ AssignValue \/ AssignNode
    \/ CopyConstruct

SpecNode == InitNode /\ [][NextNode]_vars

\* The tree below the Node at p, as a caller reads it: discriminant, scalar
\* text, list elements in order, mapping entries in key order.
RECURSIVE TreeOf(_, _)
TreeOf(h, p) ==
    IF p = Null THEN [type |-> "NULL"]
    ELSE CASE h[p].type = "LIST" ->
                [type |-> "LIST",
                 val |-> [i \in 1..Len(h[p].val) |-> TreeOf(h, h[p].val[i])]]
           [] h[p].type = "DICT" ->
                [type |-> "DICT",
                 val |-> [i \in 1..Len(h[p].val) |->
                            [key |-> h[p].val[i].key,
                             node |-> TreeOf(h, h[p].val[i].node)]]]
           [] OTHER -> h[p]

\* C4: a list access at a position >= the length of the list leaves every
\* Node unchanged and returns a Node of type NONE, whatever was done before
\* through the references earlier accesses returned.
C4_OutOfRangeIsNone ==
    [][(/\ last'.op = "index"
        /\ last'.outcome = "returned"
        /\ last'.idx >= Len(heap[last'.target].val))
       => (heap' = heap /\ heap'[ref'].type = "NONE")]_vars

\* C5: target[key] with key absent adds exactly the entry key -> None,
\* returns that entry's Node and changes no other entry and no other Node;
\* with key present it returns the entry's Node and changes nothing.
C5_DictIndex ==
    [][(last'.op = "key" /\ last'.outcome = "returned")
       => LET t == last'.target
              key == last'.key
              old == heap[t].val
              new == heap'[t].val
          IN IF HasKey(old, key)
             THEN /\ heap' = heap
                  /\ \E i \in 1..Len(old) :
                        old[i].key = key /\ old[i].node = ref'
             ELSE /\ Len(new) = Len(old) + 1
                  /\ \A i \in 1..Len(old) : \E j \in 1..Len(new) :
                        new[j] = old[i]
                  /\ \E j \in 1..Len(new) :
                        /\ new[j] = [key |-> key, node |-> ref']
                        /\ \A i \in 1..Len(new) : new[i].key = key => i = j
                  /\ heap[ref'].type = "FREE"
                  /\ heap'[ref'] = NoneCell
                  /\ heap'[t].type = "DICT"
                  /\ \A p \in Addrs \ {t, ref'} : heap'[p] = heap[p]]_vars

\* A mapping with two entries, the second just created by a lookup of an
\* absent key.
C5_Witness ==
    /\ last.op = "key"
    /\ last.outcome = "returned"
    /\ heap[last.target].type = "DICT"
    /\ Len(heap[last.target].val) = 2
    /\ ref \in HeapAddrs
    /\ heap[ref] = NoneCell
    /\ \E i \in 1..2 :
          heap[last.target].val[i] = [key |-> last.key, node |-> ref]

\* C6: after b(source) and after target = source the copy reads as the
\* same tree as the source, entries of type NONE included, and shares no
\* Node with it.
C6_DeepCopy ==
    (last.op \in {"copy", "assign"} /\ last.src # Null)
    => /\ TreeOf(heap, last.target) = TreeOf(heap, last.src)
       /\ Reach(heap, last.target) \cap Reach(heap, last.src) = {}

----------------------------------------------------------------------------
(* SpecConvert: a caller converts a Node it has constructed, or the Node   *)
(* an out-of-range list access returned, with and without a default.       *)

ConvertTexts ==
    { << >>, <<"7">>, <<"7", "7">>, <<"-", "7">>, <<"+", "7">>, <<SP, "7">>,
      <<"7", SP>>, <<"7", "x">>, <<"x">>, <<"-">>,
      TextTrue, TextYes, TextFalse, TextNo }

ConvertCells ==
    {NoneCell, ListCell(<< >>), DictCell(<< >>)}
        \cup {ScalarCell(s) : s \in ConvertTexts}

\* The conversions and the defaults a caller passes.
Defaults(conv) ==
    CASE conv = "ToBool" -> {TRUE, FALSE}
      [] conv = "ToNumber" -> {5}
      [] conv = "ToString" -> { <<"d">> }
Conversions == {"ToBool", "ToNumber", "ToString"}

InitConvert ==
    /\ \E c \in ConvertCells :
          heap = [p \in Addrs |->
                    IF p = NoneAddr THEN NoneCell
                    ELSE IF p = RootA THEN c ELSE FreeCell]
    /\ ref = NoneAddr
    /\ last = [op |-> "construct"]
    /\ esc = EscIdle
    /\ buffer = << >>
    /\ scan = ScanIdle
    /\ pipe = PipeIdle

\* target.ToBool() / ToNumber() / ToString()
Convert ==
    \E t \in Targets, conv \in Conversions :
        LET r == NodeConvert(heap, t, conv) IN
        /\ last' = [op |-> "convert", target |-> t, conv |-> conv,
                    outcome |-> r.outcome, value |-> r.value]
        /\ UNCHANGED <<heap, ref, textVars>>

\* target.ToBool(def) / ToNumber(def) / ToString(def)
ConvertDef ==
    \E t \in Targets, conv \in Conversions :
        \E def \in Defaults(conv) :
            LET r == NodeConvertDef(heap, t, conv, def) IN
            /\ last' = [op |-> "convertDef", target |-> t, conv |-> conv,
                        def |-> def, outcome |-> r.outcome, value |-> r.value]
            /\ UNCHANGED <<heap, ref, textVars>>

NextConvert == Convert \/ ConvertDef

SpecConvert == InitConvert /\ [][NextConvert]_vars

\* C1: a conversion with a default returns a value and never throws, and
\* where the strict conversion of the same Node throws, the value it
\* returns is the default.
C1_DefaultedNeverFails ==
    (last.op = "convertDef") =>
        /\ last.outcome = "returned"
        /\ (/\ last.outcome = "returned"
            /\ NodeConvert(heap, last.target, last.conv).outcome = "thrown")
           => last.value = last.def

----------------------------------------------------------------------------
(* SpecEscape: a caller escapes a string and unescapes the result, or      *)
(* unescapes a raw string as the scanner does.                             *)

MaxEscLen == 3
EscChars == {"a", "n", SP, NL, CR, SQ, DQ, BS}

InitEscape ==
    /\ esc \in { [pc |-> "start", s |-> s, raw |-> << >>, res |-> << >>] :
                 s \in SeqsUpTo(EscChars, MaxEscLen) }
    /\ buffer = << >>
    /\ scan = ScanIdle
    /\ pipe = PipeIdle
    /\ NodeIdle

DoEscape ==
    /\ esc.pc = "start"
    /\ esc' = [esc EXCEPT !.pc = "escaped", !.raw = Escape(esc.s)]
    /\ UNCHANGED <<buffer, scan, pipe, nodeVars>>

DoUnescape ==
    /\ esc.pc = "escaped"
    /\ esc' = [esc EXCEPT !.pc = "done", !.res = Unescape(esc.raw)]
    /\ UNCHANGED <<buffer, scan, pipe, nodeVars>>

DoUnescapeRaw ==
    /\ esc.pc = "start"
    /\ esc' = [esc EXCEPT !.pc = "unescaped", !.raw = esc.s,
                          !.res = Unescape(esc.s)]
    /\ UNCHANGED <<buffer, scan, pipe, nodeVars>>

NextEscape == DoEscape \/ DoUnescape \/ DoUnescapeRaw

SpecEscape == InitEscape /\ [][NextEscape]_vars

\* C9 (as specified): Unescape(Escape(s)) = s for every string s over ordinary
\* characters, newline, carriage return, quotes and backslash, in any
\* position, the end of s included.
C9_RoundTripAll == esc.pc = "done" => esc.res = esc.s

\* C9 (as the code behaves): Unescape(Escape(s)) = s for every such string s whose last
\* character is not whitespace (Unescape trims trailing whitespace).
C9_RoundTripUntrimmed ==
    (esc.pc = "done" /\ (esc.s = << >> \/ ~IsSpace(esc.s[Len(esc.s)])))
        => esc.res = esc.s

\* A string holding a newline, a quote and a backslash at its end is
\* given back unchanged.
C9_Witness ==
    /\ esc.pc = "done"
    /\ esc.s = <<NL, SQ, BS>>
    /\ esc.res = esc.s

\* The type and text of each token, without its position.
Kinds(tokens) ==
    [i \in 1..Len(tokens) |-> <<tokens[i].type, tokens[i].value>>]

Positions(buf, cs) == {i \in 1..Len(buf) : buf[i] \in cs}

\* The first '#' of buf is met between tokens when no quote comes before
\* it (an unquoted scalar ends at '#'); the comment it starts is followed by
\* a line break.
HasComment(buf) ==
    /\ Positions(buf, {"#"}) # {}
    /\ Positions(buf, {SQ, DQ}) \cap (1..Least(Positions(buf, {"#"}))) = {}
    /\ \E n \in Positions(buf, {NL}) : n > Least(Positions(buf, {"#"}))

\* buf without its first comment: the characters from the first '#' up to,
\* not including, the next line break.
WithoutComment(buf) ==
    LET h == Least(Positions(buf, {"#"}))
        n == Least({i \in Positions(buf, {NL}) : i > h})
    IN SubSeq(buf, 1, h - 1) \o SubSeq(buf, n, Len(buf))

\* C7 (as specified): a comment contributes no tokens, whatever its text
\* holds, a further '#' or a double-quoted fragment included: the tokens of
\* an input are those of the input without the comment.
C7_CommentNoTokens ==
    (scan.pc = "done" /\ ~scan.oobRead /\ HasComment(buffer)) =>
        \A oobc \in OobBytes :
            LET twin == Tokenize(WithoutComment(buffer), oobc) IN
            twin.pc = "done" /\ Kinds(twin.tokens) = Kinds(scan.tokens)

----------------------------------------------------------------------------
(* SpecParse: a caller parses an input (Parser::Parse: FixEncoding,        *)
(* Tokenize, then Parse from tokens.begin()), emits the tree and parses    *)
(* the emitted text again.                                                 *)

MaxRawLen == 3
MaxEntries == 2

PipeChars == {"k", "a", ":", ",", NL, "[", "]", "{", "}", SQ, BS, "#"}

\* Every short input.
RawInputs == SeqsUpTo(PipeChars, MaxRawLen)

\* Inputs made of lines `key:value`.
EntryKeys == { <<"k">>, <<"j">>, <<SQ, "k", ":", SQ>> }
EntryValues ==
    { <<"a">>, <<"b">>, <<SQ, "a", BS, SQ, "b", SQ>>, <<"a", BS>>,
      <<"[", "a", ",", "b", "]">>, <<"{", "j", ":", "a", "}">>,
      <<"{", "j", ":", "a">>, <<"[", "{", "j", ":", "a">> }
Entries == { k \o <<":">> \o v \o <<NL>> : k \in EntryKeys, v \in EntryValues }

RECURSIVE Concat(_)
Concat(ss) == IF ss = << >> THEN << >> ELSE Head(ss) \o Concat(Tail(ss))

EntryInputs == { Concat(es) : es \in SeqsUpTo(Entries, MaxEntries) }

\* An input that starts with the byte-order mark.
BomInputs == { BOM \o e : e \in Entries }

PipeStart ==
    [pc |-> "start", input |-> << >>, st |-> "", tree |-> << >>, cursor |-> 0,
     err |-> "", out |-> << >>, st2 |-> "", tree2 |-> << >>]

InitParse ==
    /\ buffer \in RawInputs \cup EntryInputs \cup BomInputs
    /\ scan = ScanStart
    /\ pipe = [PipeStart EXCEPT !.input = buffer]
    /\ esc = EscIdle
    /\ NodeIdle

\* Parser::Parse(): FixEncoding() and Tokenize().
DoTokenize ==
    /\ pipe.pc = "start"
    /\ buffer' = FixEncoding(buffer)
    /\ \E oobc \in OobBytes : scan' = Tokenize(buffer', oobc)
    /\ pipe' = [pipe EXCEPT !.pc = "tokenized"]
    /\ UNCHANGED <<esc, nodeVars>>

\* Parser::Parse(): Parse(begin), when Tokenize has returned.
DoParse ==
    /\ pipe.pc = "tokenized"
    /\ scan.pc = "done"
    /\ LET r == ParseNode(scan.tokens, 1) IN
       pipe' = [pipe EXCEPT !.pc = "parsed", !.st = r.st, !.tree = r.node,
                            !.cursor = r.tok, !.err = r.err]
    /\ UNCHANGED <<esc, buffer, scan, nodeVars>>

\* Emitter::Emit(tree, os) on the tree Parse returned.
DoEmit ==
    /\ pipe.pc = "parsed"
    /\ pipe.st = "ok"
    /\ pipe' = [pipe EXCEPT !.pc = "emitted", !.out = Emit(pipe.tree, 0, TRUE)]
    /\ UNCHANGED <<esc, buffer, scan, nodeVars>>

\* A second Parser, on the emitted text.
Reparsed(text, oobc) ==
    LET s == Tokenize(FixEncoding(text), oobc) IN
    IF s.pc = "done" THEN ParseNode(s.tokens, 1)
    ELSE IF s.pc = "error" THEN Thrown(s.err, 0)
    ELSE Undefined(0)

DoReparse ==
    /\ pipe.pc = "emitted"
    /\ \E oobc \in OobBytes :
          LET r == Reparsed(pipe.out, oobc) IN
          pipe' = [pipe EXCEPT !.pc = "reparsed", !.st2 = r.st,
                               !.tree2 = r.node]
    /\ UNCHANGED <<esc, buffer, scan, nodeVars>>

NextParse == DoTokenize \/ DoParse \/ DoEmit \/ DoReparse

SpecParse == InitParse /\ [][NextParse]_vars

\* Equality of two trees: discriminant, scalar text, list order and length,
\* mapping keys and values, recursively.
RECURSIVE SameTree(_, _)
SameTree(x, y) ==
    /\ x.type = y.type
    /\ Len(x.val) = Len(y.val)
    /\ CASE x.type = "SCALAR" -> x.val = y.val
         [] x.type = "LIST" ->
               \A i \in 1..Len(x.val) : SameTree(x.val[i], y.val[i])
         [] x.type = "DICT" ->
               \A i \in 1..Len(x.val) :
                   /\ x.val[i].key = y.val[i].key
                   /\ SameTree(x.val[i].node, y.val[i].node)
         [] OTHER -> TRUE

\* C2 (as specified): for every input Parse accepts, parsing the emitted text
\* succeeds and yields a tree equal to the first.
C2_RoundTrip ==
    pipe.pc = "reparsed" => (pipe.st2 = "ok" /\ SameTree(pipe.tree, pipe.tree2))

\* Whether every '[' and '{' token has its closer and every closer its
\* opener; stack holds the openers not yet closed.
RECURSIVE Balanced(_, _, _)
Balanced(tokens, i, stack) ==
    IF i > Len(tokens) THEN stack = << >>
    ELSE CASE tokens[i].type \in {"ARRAY_START", "DICT_START"} ->
                Balanced(tokens, i + 1, <<tokens[i].type>> \o stack)
           [] tokens[i].type = "ARRAY_END" ->
                /\ stack # << >>
                /\ Head(stack) = "ARRAY_START"
                /\ Balanced(tokens, i + 1, Tail(stack))
           [] tokens[i].type = "DICT_END" ->
                /\ stack # << >>
                /\ Head(stack) = "DICT_START"
                /\ Balanced(tokens, i + 1, Tail(stack))
           [] OTHER -> Balanced(tokens, i + 1, stack)

\* C8 (as specified): when a '[' or '{' has no matching closer before the end
\* of the token sequence, or a closer no opener, Parse raises an Error: it
\* returns no tree and never moves the cursor past the end of the tokens.
C8_UnbalancedReported ==
    (pipe.pc = "parsed" /\ ~Balanced(scan.tokens, 1, << >>)) =>
        (pipe.st = "error" /\ pipe.cursor <= Len(scan.tokens) + 1)

\* The positions of the KEY tokens directly inside the mapping opened by
\* token i (j is the scan position, depth the nesting below token i).
RECURSIVE KeysInside(_, _, _)
KeysInside(tokens, j, depth) ==
    IF j > Len(tokens) THEN {}
    ELSE CASE tokens[j].type \in {"ARRAY_START", "DICT_START"} ->
                KeysInside(tokens, j + 1, depth + 1)
           [] tokens[j].type \in {"ARRAY_END", "DICT_END"} ->
                IF depth = 1 THEN {} ELSE KeysInside(tokens, j + 1, depth - 1)
           [] tokens[j].type = "KEY" /\ depth = 1 ->
                {j} \cup KeysInside(tokens, j + 1, depth)
           [] OTHER -> KeysInside(tokens, j + 1, depth)

Occurrences(tokens, i, key) ==
    {j \in KeysInside(tokens, i + 1, 1) : tokens[j].value = key}

\* The mappings of an accepted input: the tree Parse returned for the whole
\* input and the mapping built at every nested '{'.
MappingStarts ==
    {i \in 1..Len(scan.tokens) :
        /\ scan.tokens[i].type = "DICT_START"
        /\ ParseNode(scan.tokens, i).st = "ok"}

MappingAt(i) == IF i = 1 THEN pipe.tree ELSE ParseNode(scan.tokens, i).node

\* The mapping holds one entry for the key of token j, and its value is the
\* one parsed at occurrence `pick` of that key.
HoldsOccurrence(i, j, pick) ==
    LET key == scan.tokens[j].value
        dict == MappingAt(i).val
        at == {e \in 1..Len(dict) : dict[e].key = key}
    IN /\ Cardinality(at) = 1
       /\ \A e \in at :
             SameTree(dict[e].node, ParseNode(scan.tokens, pick + 1).node)

\* C3 (as specified): a key that occurs more than once at one nesting level
\* has one entry in the parsed mapping, with the value of its LAST occurrence.
C3_LastWins ==
    (pipe.pc = "parsed" /\ pipe.st = "ok") =>
        \A i \in MappingStarts : \A j \in KeysInside(scan.tokens, i + 1, 1) :
            HoldsOccurrence(i, j,
                Greatest(Occurrences(scan.tokens, i, scan.tokens[j].value)))

\* C3 (as the code behaves): such a key has one entry in the parsed mapping, with the
\* value of its FIRST occurrence; later occurrences are parsed and dropped.
C3_FirstWins ==
    (pipe.pc = "parsed" /\ pipe.st = "ok") =>
        \A i \in MappingStarts : \A j \in KeysInside(scan.tokens, i + 1, 1) :
            HoldsOccurrence(i, j,
                Least(Occurrences(scan.tokens, i, scan.tokens[j].value)))

\* An accepted input whose top-level mapping has a key twice, with two
\* different values, and holds the first.
C3_Witness ==
    /\ pipe.pc = "parsed"
    /\ pipe.st = "ok"
    /\ \E j1, j2 \in KeysInside(scan.tokens, 2, 1) :
          /\ j1 < j2
          /\ scan.tokens[j1].value = scan.tokens[j2].value
          /\ ~SameTree(ParseNode(scan.tokens, j1 + 1).node,
                       ParseNode(scan.tokens, j2 + 1).node)
          /\ HoldsOccurrence(1, j2, j1)

====
